---- MODULE Spec2Model ----
(***************************************************************************)
(* Model of scripts/gen_chip_bg.py: generate_chip_bg(filename, width,     *)
(* height), the procedural chip-background generator that writes an       *)
(* uncompressed 24-bit bitmap.  One run of the function is stepped        *)
(* through statement by statement: open, the fifteen header writes, the   *)
(* fifty block samples, one row per loop iteration, and the exit of the   *)
(* `with` block.                                                           *)
(***************************************************************************)
EXTENDS Integers, Sequences, FiniteSets, TLC

VARIABLES
    width,        \* argument width
    height,       \* argument height
    seed,         \* which random tape the global `random` state stands for
    pos,          \* number of draws consumed from the tape
    pc,           \* position in generate_chip_bg
    hdr,          \* index of the next header write (1..15)
    f,            \* the file object of `with open(...) as f`
    out,          \* bytes handed to f.write so far, in order
    blocks,       \* the list `blocks`
    i,            \* loop counter of `for _ in range(50)`
    y,            \* loop variable of `for y in range(height)`
    exc,          \* exception in flight or propagated ("none" if none)
    rowLog,       \* history: the y of every row handed to f.write, in order
    run,          \* 1 for the first call, 2 for the repeated call
    ref,          \* output of the first call, kept by the caller
    probeBlocks,  \* block list of the per-pixel specification
    probe         \* last pixel composed by the per-pixel specification

vars == <<width, height, seed, pos, pc, hdr, f, out, blocks, i, y, exc,
          rowLog, run, ref, probeBlocks, probe>>

runVars == <<width, height, seed, pos, pc, hdr, f, out, blocks, i, y, exc,
             rowLog, run, ref>>

(***************************************************************************)
(* Bounds of the model.                                                    *)
(***************************************************************************)
MaxWidth == 4
MaxHeight == 3
MaxNeg == 2
MaxSeed == 3
MaxProbeBlocks == 2

Widths == (0 - MaxNeg)..MaxWidth
Heights == (0 - MaxNeg)..MaxHeight
Seeds == 0..MaxSeed

(***************************************************************************)
(* Program constants.                                                      *)
(***************************************************************************)
NumBlocks == 50
DefaultWidth == 1024
DefaultHeight == 1024
GridPeriod == 128
BorderBoost == 40
GridBoost == 30
NoiseMax == 10
ChannelMax == 255

(***************************************************************************)
(* The random module.  The generator's state is a tape of 8-bit samples   *)
(* and a read position; randint(a, b) scales one sample onto a..b, both   *)
(* ends included.  Tape 0 always yields the lowest value, tape 1 the      *)
(* highest, tape 2 puts every block at the origin with the highest        *)
(* extents, boosts and noise, the others mix.                              *)
(***************************************************************************)
TapeUnit == 256

Tape(s, p) ==
    LET blk == p \div 5
        fld == p % 5
    IN  CASE s = 0 -> 0
          [] s = 1 -> TapeUnit - 1
          [] s = 2 -> IF p < 5 * NumBlocks /\ fld < 2 THEN 0 ELSE TapeUnit - 1
          [] OTHER ->
               IF p < 5 * NumBlocks /\ fld < 2
               THEN CASE blk % 17 = s % 17 -> 0
                      [] blk % 17 = (s + 5) % 17 -> TapeUnit \div 2
                      [] OTHER -> TapeUnit - 1
               ELSE ((p * 37) + (s * 101) + ((p * p) % 251)) % TapeUnit

\* random.randint(a, b) raises ValueError when the range is empty
RandintRaises(a, b) == b < a

\* Randint as it would be with a generator that ignores the seeded state
\* (random.SystemRandom): the repeated call reads another tape
RandintUnseeded(s, p, a, b) == a + (Tape(s + run, p) * (b - a + 1)) \div TapeUnit

\* random.randint(a, b) reading tape position p
Randint(s, p, a, b) == a + (Tape(s, p) * (b - a + 1)) \div TapeUnit

(***************************************************************************)
(* Integer helpers: Python's & on two's complement, struct.pack.           *)
(***************************************************************************)
RECURSIVE AndNat(_, _)
\* bitwise and of two naturals
AndNat(a, b) ==
    IF a = 0 \/ b = 0 THEN 0
    ELSE (a % 2) * (b % 2) + 2 * AndNat(a \div 2, b \div 2)

WordBits == 16777216

\* v & ~3 on Python integers, computed in a 24-bit two's complement window
AndNot3(v) ==
    LET r == AndNat(v % WordBits, WordBits - 4)
    IN  IF r >= WordBits \div 2 THEN r - WordBits ELSE r

\* line 24
RowSize(w) == AndNot3(w * 3 + 3)

\* line 25
PixelDataSize(w, h) == RowSize(w) * h

\* FileSize without the 14 bytes of the file header
FileSizeNoFileHeader(w, h) == 40 + PixelDataSize(w, h)

\* line 26
FileSize(w, h) == 14 + 40 + PixelDataSize(w, h)

\* line 27
DataOffset == 14 + 40

(***************************************************************************)
(* struct.pack with a little-endian format of one field.  Formats: "I"    *)
(* unsigned 32 bit, "i" signed 32 bit, "H" unsigned 16 bit.  The range    *)
(* tests are written on the top byte so that no intermediate value leaves *)
(* the 32-bit integers.                                                    *)
(***************************************************************************)
FmtLen(fmt) == IF fmt = "H" THEN 2 ELSE 4

\* struct.pack raises struct.error when the value does not fit the format
PackRaises(fmt, v) ==
    CASE fmt = "I" -> v < 0 \/ v \div 16777216 > 255
      [] fmt = "i" -> v \div 16777216 < -128 \/ v \div 16777216 > 127
      [] fmt = "H" -> v < 0 \/ v > 65535

RECURSIVE Pow256(_)
Pow256(k) == IF k = 0 THEN 1 ELSE 256 * Pow256(k - 1)

\* Pack with the '>' byte order: most significant byte first
PackBigEndian(fmt, v) ==
    [k \in 1..FmtLen(fmt) |-> (v \div Pow256(FmtLen(fmt) - k)) % 256]

\* the bytes of struct.pack('<' + fmt, v): least significant byte first,
\* two's complement for a negative signed value
Pack(fmt, v) ==
    [k \in 1..FmtLen(fmt) |-> (v \div Pow256(k - 1)) % 256]

\* the fifteen f.write calls of the header, lines 31-47: a literal or a
\* packed field each
HeaderField(k, w, h) ==
    CASE k = 1  -> [fmt |-> "raw", val |-> 0]
      [] k = 2  -> [fmt |-> "I", val |-> FileSize(w, h)]
      [] k = 3  -> [fmt |-> "I", val |-> 0]
      [] k = 4  -> [fmt |-> "I", val |-> DataOffset]
      [] k = 5  -> [fmt |-> "I", val |-> 40]
      [] k = 6  -> [fmt |-> "i", val |-> w]
      [] k = 7  -> [fmt |-> "i", val |-> h]
      [] k = 8  -> [fmt |-> "H", val |-> 1]
      [] k = 9  -> [fmt |-> "H", val |-> 24]
      [] k = 10 -> [fmt |-> "I", val |-> 0]
      [] k = 11 -> [fmt |-> "I", val |-> PixelDataSize(w, h)]
      [] k = 12 -> [fmt |-> "i", val |-> 2835]
      [] k = 13 -> [fmt |-> "i", val |-> 2835]
      [] k = 14 -> [fmt |-> "I", val |-> 0]
      [] k = 15 -> [fmt |-> "I", val |-> 0]

NumHeaderWrites == 15

\* b'BM'
Signature == <<66, 77>>

HeaderRaises(k, w, h) ==
    LET fld == HeaderField(k, w, h)
    IN  fld.fmt # "raw" /\ PackRaises(fld.fmt, fld.val)

HeaderBytes(k, w, h) ==
    LET fld == HeaderField(k, w, h)
    IN  IF fld.fmt = "raw" THEN Signature ELSE Pack(fld.fmt, fld.val)

(***************************************************************************)
(* The per-pixel layers, lines 73-105.                                     *)
(***************************************************************************)
\* line 86: the pixel is inside the block
Inside(x, yy, blk) ==
    /\ blk[1] <= x /\ x < blk[1] + blk[3]
    /\ blk[2] <= yy /\ yy < blk[2] + blk[4]

\* OnBorder with the far edges one pixel too far (bx + bw, by + bh)
OnBorderOffByOne(x, yy, blk) ==
    \/ x = blk[1]
    \/ x = blk[1] + blk[3]
    \/ yy = blk[2]
    \/ yy = blk[2] + blk[4]

\* line 93: the pixel is on the border of the block
OnBorder(x, yy, blk) ==
    \/ x = blk[1]
    \/ x = blk[1] + blk[3] - 1
    \/ yy = blk[2]
    \/ yy = blk[2] + blk[4] - 1

\* lines 86-94: the body of the block loop for one block
ApplyBlock(c, x, yy, blk) ==
    IF Inside(x, yy, blk)
    THEN [r |-> c.r + blk[5] \div 2,
          g |-> c.g + blk[5] + (IF OnBorder(x, yy, blk) THEN BorderBoost ELSE 0),
          b |-> c.b + blk[5] \div 2]
    ELSE c

RECURSIVE BlockLayer(_, _, _, _, _)
\* lines 85-94: `for (bx, by, bw, bh, boost) in blocks`, from index k on
\* (the accumulator is compared at every iteration so that it is evaluated
\* there and not as one nested expression at the end of the loop)
BlockLayer(c, x, yy, blks, k) ==
    IF k > Len(blks) THEN c
    ELSE LET nxt == ApplyBlock(c, x, yy, blks[k])
         IN  IF nxt = c THEN BlockLayer(c, x, yy, blks, k + 1)
             ELSE BlockLayer(nxt, x, yy, blks, k + 1)

\* lines 97-100
GridLayer(c, x, yy) ==
    IF x % GridPeriod = 0 \/ yy % GridPeriod = 0
    THEN [r |-> c.r + GridBoost, g |-> c.g + GridBoost, b |-> c.b + GridBoost]
    ELSE c

Min(a, b) == IF a < b THEN a ELSE b

\* Clamp left out
ClampMissing(c) == c

\* lines 103-105
Clamp(c) ==
    [r |-> Min(ChannelMax, c.r), g |-> Min(ChannelMax, c.g), b |-> Min(ChannelMax, c.b)]

\* lines 74-82: base colour plus the pixel's noise draw n
BaseNoise(n) == [r |-> 20 + n, g |-> 30 + n, b |-> 25 + n]

\* lines 73-105: the colour of pixel (x, yy) for noise draw n and block list blks
ComposePixel(x, yy, n, blks) ==
    Clamp(GridLayer(BlockLayer(BaseNoise(n), x, yy, blks, 1), x, yy))

\* PixelBytes in red, green, blue order
PixelBytesRGB(c) == <<c.r, c.g, c.b>>

\* lines 108-111: the three bytes of a pixel in the row buffer
PixelBytes(c) == <<c.b, c.g, c.r>>

\* lines 71-111: the row buffer of row yy: bytearray(rs) zero-filled, then
\* pixel x at 3x..3x+2; the noise draw of pixel x is the draw at p0 + x
RowBytes(yy, w, rs, s, p0, blks) ==
    LET pix == [x \in 0..(w - 1) |->
                  PixelBytes(ComposePixel(x, yy, Randint(s, p0 + x, 0, NoiseMax), blks))]
    IN  [j \in 1..rs |->
           IF j <= 3 * w THEN pix[(j - 1) \div 3][((j - 1) % 3) + 1] ELSE 0]

(***************************************************************************)
(* One call of generate_chip_bg.                                           *)
(***************************************************************************)
NoProbe == [x |-> -1, y |-> -1, n |-> 0, rgb |-> [r |-> 0, g |-> 0, b |-> 0]]

\* state at the call of generate_chip_bg(filename, w, h) with the random
\* module in the state of tape s, position 0
Init ==
    /\ width \in Widths
    /\ height \in Heights
    /\ seed \in Seeds
    /\ pos = 0
    /\ pc = "call"
    /\ hdr = 1
    /\ f = "unopened"
    /\ out = <<>>
    /\ blocks = <<>>
    /\ i = 0
    /\ y = 0
    /\ exc = "none"
    /\ rowLog = <<>>
    /\ run = 1
    /\ ref = <<>>
    /\ probeBlocks = <<>>
    /\ probe = NoProbe

\* line 29: open(filename, 'wb') succeeds; the file is created or truncated
Open ==
    /\ pc = "call"
    /\ f' = "open"
    /\ out' = <<>>
    /\ hdr' = 1
    /\ pc' = "header"
    /\ UNCHANGED <<width, height, seed, pos, blocks, i, y, exc, rowLog, run, ref,
                   probeBlocks, probe>>

\* line 29: open raises OSError (missing directory, no permission); the
\* with block is never entered
OpenFails ==
    /\ pc = "call"
    /\ exc' = "OSError"
    /\ pc' = "raised"
    /\ UNCHANGED <<width, height, seed, pos, hdr, f, out, blocks, i, y, rowLog,
                   run, ref, probeBlocks, probe>>

\* lines 31-47 (and line 54 after the last one): the next header write;
\* struct.pack may raise before anything of the field is written
WriteHeader ==
    /\ pc = "header"
    /\ IF HeaderRaises(hdr, width, height)
       THEN /\ exc' = "struct.error"
            /\ pc' = "unwind"
            /\ UNCHANGED <<out, hdr, blocks, i>>
       ELSE /\ out' = out \o HeaderBytes(hdr, width, height)
            /\ exc' = exc
            /\ IF hdr = NumHeaderWrites
               THEN /\ pc' = "blocks"
                    /\ blocks' = <<>>
                    /\ i' = 0
                    /\ hdr' = hdr
               ELSE /\ pc' = "header"
                    /\ hdr' = hdr + 1
                    /\ UNCHANGED <<blocks, i>>
    /\ UNCHANGED <<width, height, seed, pos, f, y, rowLog, run, ref,
                   probeBlocks, probe>>

\* f.write raises OSError (disk full, device error) at a header or row write
WriteFails ==
    /\ f = "open"
    /\ \/ pc = "header"
       \/ pc = "rows" /\ y < height
    /\ exc' = "OSError"
    /\ pc' = "unwind"
    /\ UNCHANGED <<width, height, seed, pos, hdr, f, out, blocks, i, y, rowLog,
                   run, ref, probeBlocks, probe>>

\* lines 56-61: the five draws of one block, in order, from position p
SampleOne(s, p, w, h) ==
    << Randint(s, p, 0, w),
       Randint(s, p + 1, 0, h),
       Randint(s, p + 2, 50, 200),
       Randint(s, p + 3, 50, 200),
       Randint(s, p + 4, 20, 60) >>

\* lines 55-61: one iteration of `for _ in range(50)`; randint(0, width)
\* and randint(0, height) raise ValueError on a negative bound
SampleBlock ==
    /\ pc = "blocks"
    /\ i < NumBlocks
    /\ IF RandintRaises(0, width)
       THEN /\ exc' = "ValueError"
            /\ pc' = "unwind"
            /\ UNCHANGED <<pos, blocks, i>>
       ELSE IF RandintRaises(0, height)
       THEN /\ exc' = "ValueError"
            /\ pc' = "unwind"
            /\ pos' = pos + 1
            /\ UNCHANGED <<blocks, i>>
       ELSE /\ blocks' = Append(blocks, SampleOne(seed, pos, width, height))
            /\ pos' = pos + 5
            /\ i' = i + 1
            /\ UNCHANGED <<exc, pc>>
    /\ UNCHANGED <<width, height, seed, hdr, f, out, y, rowLog, run, ref,
                   probeBlocks, probe>>

\* line 55 exhausted, line 70 entered
BlocksDone ==
    /\ pc = "blocks"
    /\ i = NumBlocks
    /\ pc' = "rows"
    /\ y' = 0
    /\ UNCHANGED <<width, height, seed, pos, hdr, f, out, blocks, i, exc, rowLog,
                   run, ref, probeBlocks, probe>>

\* lines 70-113: one iteration of `for y in range(height)`: the row is
\* composed pixel by pixel (one noise draw each) and written
WriteRow ==
    /\ pc = "rows"
    /\ y < height
    /\ out' = out \o RowBytes(y, width, RowSize(width), seed, pos, blocks)
    /\ pos' = pos + width
    /\ rowLog' = Append(rowLog, y)
    /\ y' = y + 1
    /\ UNCHANGED <<width, height, seed, pc, hdr, f, blocks, i, exc, run, ref,
                   probeBlocks, probe>>

\* line 70 exhausted: the body of the with block ends normally
RowsDone ==
    /\ pc = "rows"
    /\ y >= height
    /\ pc' = "unwind"
    /\ UNCHANGED <<width, height, seed, pos, hdr, f, out, blocks, i, y, exc,
                   rowLog, run, ref, probeBlocks, probe>>

\* FileAfterExit as it would be with a plain open() and f.close() at the
\* end of the body: an exception skips the close
FileAfterExitNoWith(e) == IF e = "none" THEN "closed" ELSE "open"

\* line 29: what the exit of `with open(...) as f` leaves of the file
\* object, whether the body ended normally or with exception e
FileAfterExit(e) == "closed"

\* line 29: the with block is left; the function returns or the exception
\* propagates to the caller
ExitWith ==
    /\ pc = "unwind"
    /\ f' = FileAfterExit(exc)
    /\ pc' = IF exc = "none" THEN "returned" ELSE "raised"
    /\ UNCHANGED <<width, height, seed, pos, hdr, out, blocks, i, y, exc, rowLog,
                   run, ref, probeBlocks, probe>>

\* line 4: the caller keeps the output, puts the random module back into
\* the state it had before the first call and calls the function again
\* with the same arguments
CallAgain ==
    /\ pc = "returned"
    /\ run = 1
    /\ ref' = out
    /\ run' = 2
    /\ pos' = 0
    /\ pc' = "call"
    /\ hdr' = 1
    /\ f' = "unopened"
    /\ out' = <<>>
    /\ blocks' = <<>>
    /\ i' = 0
    /\ y' = 0
    /\ rowLog' = <<>>
    /\ UNCHANGED <<width, height, seed, exc, probeBlocks, probe>>

Next ==
    \/ Open
    \/ OpenFails
    \/ WriteHeader
    \/ WriteFails
    \/ SampleBlock
    \/ BlocksDone
    \/ WriteRow
    \/ RowsDone
    \/ ExitWith
    \/ CallAgain

Spec == Init /\ [][Next]_vars

\* the call is synchronous and single-threaded: it runs until it returns
\* or raises
FairSpec == Spec /\ WF_vars(Next)

(***************************************************************************)
(* The per-pixel specification: the pixel function of lines 73-105        *)
(* applied to block lists and pixels of the default 1024 x 1024 image.    *)
(***************************************************************************)
ProbeBlockChoices ==
    {<<bx, by, bw, bh, boost>> :
        bx \in {0, 128}, by \in {0}, bw \in {50, 200}, bh \in {50}, boost \in {21, 60}}
    \cup {<<100, 40, 50, 200, 20>>, <<DefaultWidth, DefaultHeight, 200, 200, 60>>}

ProbeXs == {0, 1, 49, 50, 128, 149, 177, 199, 327}
ProbeYs == {0, 1, 40, 49, 50, 128, 239}
ProbeNoise == {0, NoiseMax}

PixelInit ==
    /\ width = DefaultWidth
    /\ height = DefaultHeight
    /\ seed = 0
    /\ pos = 0
    /\ pc = "call"
    /\ hdr = 1
    /\ f = "unopened"
    /\ out = <<>>
    /\ blocks = <<>>
    /\ i = 0
    /\ y = 0
    /\ exc = "none"
    /\ rowLog = <<>>
    /\ run = 1
    /\ ref = <<>>
    /\ probeBlocks = <<>>
    /\ probe = NoProbe

\* lines 56-61 for an arbitrary draw: one more block joins the list
ProbeSample ==
    /\ Len(probeBlocks) < MaxProbeBlocks
    /\ \E blk \in ProbeBlockChoices : probeBlocks' = Append(probeBlocks, blk)
    /\ probe' = NoProbe
    /\ UNCHANGED runVars

\* lines 73-105 for one pixel and one noise draw
ProbePixel ==
    /\ probe = NoProbe
    /\ \E x \in ProbeXs, yy \in ProbeYs, n \in ProbeNoise :
          probe' = [x |-> x, y |-> yy, n |-> n,
                    rgb |-> ComposePixel(x, yy, n, probeBlocks)]
    /\ UNCHANGED probeBlocks
    /\ UNCHANGED runVars

PixelNext == ProbeSample \/ ProbePixel

PixelSpec == PixelInit /\ [][PixelNext]_vars

(***************************************************************************)
(* Properties.                                                             *)
(***************************************************************************)
\* the number of header bytes: 14 + 40
HeaderLen == DataOffset

\* the little-endian unsigned 32-bit integer at byte offset k of b
U32At(b, k) ==
    b[k + 1] + 256 * b[k + 2] + 65536 * b[k + 3] + 16777216 * b[k + 4]

\* the little-endian signed 32-bit integer at byte offset k of b
S32At(b, k) ==
    b[k + 1] + 256 * b[k + 2] + 65536 * b[k + 3]
    + 16777216 * (IF b[k + 4] >= 128 THEN b[k + 4] - 256 ELSE b[k + 4])

\* the smallest multiple of 4 that is >= 3 * w
Stride(w) == 4 * ((3 * w + 3) \div 4)

\* row k (counted from 0) of the pixel data of b, for rows of rs bytes
RowAt(b, k, rs) == SubSeq(b, HeaderLen + k * rs + 1, HeaderLen + (k + 1) * rs)

\* C1: for width > 0 and height > 0, once the call has returned the
\* file-size field at bytes 2-5 equals 14 + 40 + rowStride * height with
\* rowStride the smallest multiple of 4 >= 3 * width, and equals the number
\* of bytes written (54 header bytes and height rows of rowStride bytes);
\* width = 1, height = 1 gives rowStride 4 and 58 bytes.
C1_FileSizeMatchesLength ==
    (pc = "returned" /\ width > 0 /\ height > 0) =>
        /\ U32At(out, 2) = 14 + 40 + Stride(width) * height
        /\ U32At(out, 2) = Len(out)
        /\ Len(rowLog) = height
        /\ Len(out) = HeaderLen + Len(rowLog) * Stride(width)
        /\ (width = 1 /\ height = 1) => (Stride(width) = 4 /\ Len(out) = 58)

C1_Witness ==
    /\ pc = "returned"
    /\ width = 1
    /\ height = 1
    /\ Len(out) = 58
    /\ U32At(out, 2) = 58

\* C2: with width <= 0 or height <= 0 the call fails before any byte is
\* written: the destination never receives a byte and the call never
\* returns normally.
C2_InvalidDimensionsWriteNothing ==
    (width <= 0 \/ height <= 0) =>
        /\ Len(out) = 0
        /\ pc # "returned"

\* C3: the header is written first and the rows follow bottom to top: the
\* k-th row written after the header (k from 0) is row y = height - 1 - k.
C3_RowsBottomToTop ==
    /\ Len(rowLog) > 0 => Len(out) >= HeaderLen
    /\ \A k \in 0..(Len(rowLog) - 1) : rowLog[k + 1] = height - 1 - k

\* C4: every channel value stored into a row buffer and written lies in
\* 0..255, whatever the blocks and the noise draws.
C4_ChannelsInRange ==
    \A k \in (HeaderLen + 1)..Len(out) : out[k] \in 0..255

\* a pixel that all fifty blocks cover with maximal boosts and noise
C4_Witness ==
    /\ pc = "returned"
    /\ seed = 2
    /\ width > 0
    /\ height > 0
    /\ \A k \in 1..NumBlocks : Inside(0, 0, blocks[k]) /\ blocks[k][5] = 60
    /\ out[HeaderLen + 1] = 255
    /\ out[HeaderLen + 2] = 255
    /\ out[HeaderLen + 3] = 255

\* C5: for width > 0 and height > 0 the output starts with 0x42 0x4D,
\* bytes 10-13 hold 54, bytes 14-17 hold 40, bytes 18-21 and 22-25 hold
\* width and height as signed integers, all little-endian, and exactly 54
\* bytes are written before the first pixel row.
C5_HeaderFields ==
    (width > 0 /\ height > 0) =>
        /\ Len(out) >= 2 => (out[1] = 66 /\ out[2] = 77)
        /\ Len(out) >= 14 => U32At(out, 10) = 54
        /\ Len(out) >= 18 => U32At(out, 14) = 40
        /\ Len(out) >= 22 => S32At(out, 18) = width
        /\ Len(out) >= 26 => S32At(out, 22) = height
        /\ pc = "blocks" => Len(out) = 54
        /\ (pc = "rows" /\ y = 0) => Len(out) = 54

C5_Witness ==
    /\ pc = "rows"
    /\ y = 0
    /\ width = 3
    /\ height = 2
    /\ Len(out) = 54
    /\ S32At(out, 18) = 3
    /\ S32At(out, 22) = 2

C7_RowLayout ==
    LET rs == RowSize(width)
    IN  /\ RowSize(DefaultWidth) = 3072
        /\ RowSize(1) = 4
        /\ Len(rowLog) > 0 =>
              /\ rs % 4 = 0
              /\ rs >= 3 * width
              /\ rs < 3 * width + 4
              /\ Len(out) = HeaderLen + Len(rowLog) * rs
        /\ \A k \in 0..(Len(rowLog) - 1) :
              LET row == RowAt(out, k, rs)
                  yy == rowLog[k + 1]
              IN  /\ Len(row) = rs
                  /\ \A x \in 0..(width - 1) :
                        LET c == ComposePixel(x, yy,
                                   Randint(seed, 5 * NumBlocks + yy * width + x, 0, NoiseMax),
                                   blocks)
                        IN  /\ row[3 * x + 1] = c.b
                            /\ row[3 * x + 2] = c.g
                            /\ row[3 * x + 3] = c.r
                  /\ \A j \in (3 * width + 1)..rs : row[j] = 0

\* a padded row whose first pixel has three different channel values
C7_Witness ==
    /\ pc = "returned"
    /\ width = 3
    /\ height = 2
    /\ RowSize(width) = 12
    /\ Len(out) = HeaderLen + 24
    /\ out[HeaderLen + 3] < out[HeaderLen + 1]
    /\ out[HeaderLen + 1] < out[HeaderLen + 2]
    /\ out[HeaderLen + 10] = 0

\* C8: whenever the file was opened it is closed again: the handle is not
\* open once the call has returned or raised, whether the error came from
\* the header packing, the block sampling or a write, and an open handle is
\* eventually closed.
C8_HandleReleased ==
    /\ [](pc \in {"returned", "raised"} => f # "open")
    /\ ((f = "open") ~> (f = "closed"))

\* an error raised at a row write, after which the handle is closed
C8_Witness ==
    /\ pc = "raised"
    /\ exc = "OSError"
    /\ Len(rowLog) >= 1
    /\ f = "closed"

\* the blocks of blks that contain pixel (x, yy)
Containing(x, yy, blks) ==
    {k \in 1..Len(blks) :
        /\ blks[k][1] <= x /\ x < blks[k][1] + blks[k][3]
        /\ blks[k][2] <= yy /\ yy < blks[k][2] + blks[k][4]}

\* those of them on whose boundary the pixel lies
Bordering(x, yy, blks) ==
    {k \in Containing(x, yy, blks) :
        \/ x = blks[k][1] \/ x = blks[k][1] + blks[k][3] - 1
        \/ yy = blks[k][2] \/ yy = blks[k][2] + blks[k][4] - 1}

RECURSIVE SumBoost(_, _, _)
\* the sum over the blocks of S of boost div d
SumBoost(S, blks, d) ==
    IF S = {} THEN 0
    ELSE LET k == CHOOSE m \in S : TRUE
         IN  blks[k][5] \div d + SumBoost(S \ {k}, blks, d)

\* the colour the layers add up to, as a sum over the set of blocks
LayerSum(x, yy, n, blks) ==
    LET S == Containing(x, yy, blks)
        grid == IF x % 128 = 0 \/ yy % 128 = 0 THEN 30 ELSE 0
    IN  [r |-> Min(255, 20 + n + SumBoost(S, blks, 2) + grid),
         g |-> Min(255, 30 + n + SumBoost(S, blks, 1)
                          + 40 * Cardinality(Bordering(x, yy, blks)) + grid),
         b |-> Min(255, 25 + n + SumBoost(S, blks, 2) + grid)]

\* blks reordered by the permutation q of its indices
Permuted(blks, q) == [k \in 1..Len(blks) |-> blks[q[k]]]

\* C9: the colour of a pixel is, per channel, min(255, .) of the base
\* (20, 30, 25) plus the noise draw plus, for each containing block,
\* (boost div 2, boost, boost div 2), plus 40 to green for each containing
\* block on whose boundary the pixel lies, plus 30 on a grid line; it does
\* not depend on the order of the blocks; a grid pixel with no containing
\* block and no noise is (50, 60, 55).
C9_PixelIsSumOfLayers ==
    probe # NoProbe =>
        /\ probe.rgb = LayerSum(probe.x, probe.y, probe.n, probeBlocks)
        /\ \A q \in Permutations(1..Len(probeBlocks)) :
              ComposePixel(probe.x, probe.y, probe.n, Permuted(probeBlocks, q)) = probe.rgb
        /\ ( /\ probe.x % 128 = 0 \/ probe.y % 128 = 0
             /\ Containing(probe.x, probe.y, probeBlocks) = {}
             /\ probe.n = 0 )
           => probe.rgb = [r |-> 50, g |-> 60, b |-> 55]

\* a pixel on the far edge of one of two different blocks that contain it
C9_Witness ==
    /\ probe # NoProbe
    /\ Len(probeBlocks) = 2
    /\ probeBlocks[1] # probeBlocks[2]
    /\ Containing(probe.x, probe.y, probeBlocks) = {1, 2}
    /\ probe.x = probeBlocks[1][1] + probeBlocks[1][3] - 1
    /\ Cardinality(Bordering(probe.x, probe.y, probeBlocks)) = 1
    /\ probe.rgb.g < 255

\* C10: every sampled block has its corner inside the image (0 <= x <
\* width, 0 <= y < height), extents in 50..200 and boost in 20..60; fifty
\* blocks are sampled before the first pixel and the list is complete when
\* the rows begin.
C10_BlocksInsideImage ==
    /\ \A k \in 1..Len(blocks) :
          /\ 0 <= blocks[k][1] /\ blocks[k][1] < width
          /\ 0 <= blocks[k][2] /\ blocks[k][2] < height
          /\ blocks[k][3] \in 50..200
          /\ blocks[k][4] \in 50..200
          /\ blocks[k][5] \in 20..60
    /\ pc = "rows" => Len(blocks) = NumBlocks
    /\ Len(rowLog) > 0 => Len(blocks) = NumBlocks

====
